---- MODULE Spec2Model ----
(***************************************************************************)
(* LinkVault (src/src/App.jsx): the bookmark collection, the add/edit form, *)
(* metadata enrichment, import/export and the render that follows every     *)
(* state change, as a state machine.                                        *)
(*                                                                          *)
(* A JavaScript string is a sequence of tokens (<<"https://", "a.com">> is  *)
(* the text https://a.com, <<>> is ''), so that prefix tests, prepending,   *)
(* splitting, trimming and joining are computed on the text.  A JavaScript  *)
(* object is a function from its keys to values; a key that is absent reads *)
(* as Undefined.                                                            *)
(***************************************************************************)
EXTENDS Integers, Sequences, FiniteSets, TLC

VARIABLES
    bookmarks,        \* useState bookmarks: the collection, newest first
    isModalOpen,      \* useState isModalOpen
    editingId,        \* useState editingId (Null when creating)
    formData,         \* useState formData: the draft
    isFetchingMeta,   \* useState isFetchingMeta
    fetchError,       \* useState fetchError
    urlError,         \* useState urlError
    activeCategory,   \* useState activeCategory
    searchQuery,      \* useState searchQuery
    urlFocused,       \* whether the URL input holds the focus
    pending,          \* enrichment requests awaiting their response
    reading,          \* FileReader loads awaiting onload
    exported,         \* the last document exportData offered for download
    exportedFrom,     \* the collection that document was made from
    stored,           \* localStorage slot linkvault_data
    alertMsg,         \* the last alert() shown
    crashed,          \* a render threw: React unmounted the component
    now,              \* Date.now()
    last              \* the outcome of the handler that ran last ("other": it has none)

vars == <<bookmarks, isModalOpen, editingId, formData, isFetchingMeta, fetchError,
          urlError, activeCategory, searchQuery, urlFocused, pending, reading, exported, exportedFrom,
          stored, alertMsg, crashed, now, last>>

----------------------------------------------------------------------------
(* Bounds *)

MaxBookmarks == 2
MaxClock == 2
MaxPending == 2
MaxReading == 1

----------------------------------------------------------------------------
(* JavaScript values *)

Null == <<"null">>
Undefined == <<"undefined">>
Empty == <<>>

\* JavaScript truthiness of a string-or-null value
Truthy(v) == v \notin {Empty, Null, Undefined}

\* o[k] of a JavaScript object
Get(o, k) == IF k \in DOMAIN o THEN o[k] ELSE Undefined

\* { ...a, ...b }
Spread(a, b) == [k \in DOMAIN a \cup DOMAIN b |-> IF k \in DOMAIN b THEN b[k] ELSE a[k]]

\* a || b
Or(a, b) == IF Truthy(a) THEN a ELSE b

----------------------------------------------------------------------------
(* URLs *)

SchemeTokens == {"https://", "http://"}
HostTokens == {"a.com", "b.com"}

\* /^https?:\/\//i.test(url)
HasScheme(url) == Len(url) > 0 /\ url[1] \in SchemeTokens

\* validUrl of fetchMetadata: 'https://' is prepended when no scheme is there
ValidUrl(url) == IF HasScheme(url) THEN url ELSE <<"https://">> \o url

\* new URL(url) does not throw: an absolute URL with a well-formed host
Parseable(url) == HasScheme(url) /\ Len(url) = 2 /\ url[2] \in HostTokens

\* new URL(url).hostname
Hostname(url) == <<url[2]>>

\* `https://www.google.com/s2/favicons?domain=${validUrl}&sz=64`
GenericFavicon(validUrl) == <<"favicons?domain=">> \o validUrl

\* What the user types into the URL input ("a b" is no host: it holds a space)
UrlInputs == {<<"a.com">>, <<"https://", "b.com">>, <<"a b">>}

----------------------------------------------------------------------------
(* Tags: the draft holds one string, a record holds an array of strings *)

IsSpace(c) == c = " "

RECURSIVE TrimStart(_)
TrimStart(s) == IF s # <<>> /\ IsSpace(Head(s)) THEN TrimStart(Tail(s)) ELSE s

RECURSIVE TrimEnd(_)
TrimEnd(s) ==
    IF s # <<>> /\ IsSpace(s[Len(s)]) THEN TrimEnd(SubSeq(s, 1, Len(s) - 1)) ELSE s

\* String.prototype.trim
Trim(s) == TrimEnd(TrimStart(s))

\* String.prototype.split(','): ''.split(',') is ['']
RECURSIVE SplitFrom(_, _, _)
SplitFrom(s, i, cur) ==
    IF i > Len(s) THEN <<cur>>
    ELSE IF s[i] = "," THEN <<cur>> \o SplitFrom(s, i + 1, <<>>)
    ELSE SplitFrom(s, i + 1, Append(cur, s[i]))

Split(s) == SplitFrom(s, 1, <<>>)

\* formData.tags.split(',').map(t => t.trim()).filter(Boolean)
TagsArray(s) == SelectSeq([i \in DOMAIN Split(s) |-> Trim(Split(s)[i])], LAMBDA t : t # <<>>)

\* Array.prototype.join(', ')
RECURSIVE Join(_)
Join(arr) ==
    IF arr = <<>> THEN <<>>
    ELSE IF Len(arr) = 1 THEN arr[1]
    ELSE arr[1] \o <<",", " ">> \o Join(Tail(arr))

\* What the user types into the Tags input
TagInputs == {<<"x", ",", " ", ",", " ", "y", " ">>}

----------------------------------------------------------------------------
(* JSON documents.  A document is text that does not parse, or the text of a *)
(* JSON value; an array value holds objects.                                 *)

StrKeys == {"id", "url", "title", "description", "category", "notes", "image", "favicon"}

\* A serializer that also leaves out the keys whose value is null
StringifyObjectDropsNull(o) ==
    [k \in {j \in DOMAIN o : ~(j \in StrKeys /\ o[j] \in {Undefined, Null})} |-> o[k]]

\* JSON.stringify of an object leaves out the keys whose value is undefined
StringifyObject(o) ==
    [k \in {j \in DOMAIN o : ~(j \in StrKeys /\ o[j] = Undefined)} |-> o[k]]

\* JSON.stringify(bookmarks)
JSONStringify(arr) ==
    [kind |-> "json",
     value |-> [type |-> "array", items |-> [i \in DOMAIN arr |-> StringifyObject(arr[i])]]]

\* JSON.parse throws on text that is no JSON
ParseThrows(doc) == doc.kind # "json"

\* JSON.parse(text)
JSONParse(doc) == doc.value

\* Array.isArray(json)
IsArray(json) == json.type = "array"

Garbage == [kind |-> "garbage"]
NonArrayDoc == [kind |-> "json", value |-> [type |-> "object"]]

ImportedRecord ==
    [id |-> <<"9">>, createdAt |-> 0, url |-> <<"https://", "b.com">>, title |-> <<"B">>,
     description |-> <<>>, category |-> <<"Uncategorized">>, tags |-> <<<<"x">>>>,
     notes |-> <<>>, image |-> Null, favicon |-> Null, isFavorite |-> FALSE]

\* The same record without some of its keys
Without(o, keys) == [k \in DOMAIN o \ keys |-> o[k]]

ArrayDoc(items) == [kind |-> "json", value |-> [type |-> "array", items |-> items]]

\* The files the user picks for import
ImportFiles ==
    {Garbage, NonArrayDoc, ArrayDoc(<<ImportedRecord>>),
     ArrayDoc(<<Without(ImportedRecord, {"url"})>>),
     ArrayDoc(<<Without(ImportedRecord, {"title", "description"})>>),
     ArrayDoc(<<Spread(ImportedRecord, [tags |-> <<<<" ", "x">>, <<>>>>])>>)}

----------------------------------------------------------------------------
(* The view: what the render after a state change does with the collection *)

All == <<"All">>
Favorites == <<"Favorites">>
Uncategorized == <<"Uncategorized">>

\* The entries of the sidebar's Library section
LibraryFilters == {All, Favorites}

\* The category step of filteredBookmarks keeps the record
CategoryKeeps(b, cat) ==
    IF cat = Favorites THEN b.isFavorite
    ELSE IF cat # All THEN Get(b, "category") = cat
    ELSE TRUE

\* String.prototype.toLowerCase, letter by letter
ToLowerChar(c) ==
    CASE c = "D" -> "d"
      [] c = "E" -> "e"
      [] c = "V" -> "v"
      [] OTHER -> c

ToLowerCase(s) == [i \in DOMAIN s |-> ToLowerChar(s[i])]

\* String.prototype.includes
Includes(s, q) == \E i \in 0..(Len(s) - Len(q)) : SubSeq(s, i + 1, i + Len(q)) = q

\* A search that compares the fields with the query as it was typed
SearchKeepsCaseSensitive(b, query) ==
    IF Trim(query) = <<>> THEN TRUE
    ELSE LET q == query
         IN  \/ Includes(ToLowerCase(b.title), q)
             \/ Includes(ToLowerCase(b.url), q)
             \/ \E k \in DOMAIN b.tags : Includes(ToLowerCase(b.tags[k]), q)
             \/ (Truthy(Get(b, "description")) /\ Includes(ToLowerCase(b.description), q))

\* The search step of filteredBookmarks keeps the record
SearchKeeps(b, query) ==
    IF Trim(query) = <<>> THEN TRUE
    ELSE LET q == ToLowerCase(query)
         IN  \/ Includes(ToLowerCase(b.title), q)
             \/ Includes(ToLowerCase(b.url), q)
             \/ \E k \in DOMAIN b.tags : Includes(ToLowerCase(b.tags[k]), q)
             \/ (Truthy(Get(b, "description")) /\ Includes(ToLowerCase(b.description), q))

\* A value that has the string methods
IsString(v) == v \notin {Null, Undefined}

\* The search step throws on the record: toLowerCase of undefined, some of
\* undefined, in the order the || chain reaches them
SearchThrows(b, query) ==
    IF Trim(query) = <<>> THEN FALSE
    ELSE LET q == ToLowerCase(query)
         IN  \/ ~IsString(Get(b, "title"))
             \/ /\ ~Includes(ToLowerCase(b.title), q)
                /\ ~IsString(Get(b, "url"))
             \/ /\ ~Includes(ToLowerCase(b.title), q)
                /\ ~Includes(ToLowerCase(b.url), q)
                /\ "tags" \notin DOMAIN b

\* filteredBookmarks keeps the record
Shown(b, cat, query) == CategoryKeeps(b, cat) /\ SearchKeeps(b, query)

\* filteredBookmarks, before its sort
FilteredBookmarks(bm, cat, query) == SelectSeq(bm, LAMBDA b : Shown(b, cat, query))

\* Rendering the card of b throws: new URL(bookmark.url), bookmark.tags.slice
CardThrows(b) == ~Parseable(Get(b, "url")) \/ "tags" \notin DOMAIN b

\* The render throws: in filteredBookmarks, or in the card of a record it kept
ViewThrows(bm, cat, query) ==
    \E i \in DOMAIN bm :
        /\ CategoryKeeps(bm[i], cat)
        /\ \/ SearchThrows(bm[i], query)
           \/ SearchKeeps(bm[i], query) /\ CardThrows(bm[i])

\* The record has a card on the page
Displayed(b, cat) == Shown(b, cat, searchQuery)

\* The render of the component throws, and React unmounts it
RenderThrows(bm, cat) == ViewThrows(bm, cat, searchQuery)

\* The useState initializer of bookmarks: what a start loads from the slot
Loaded(slot) == JSONParse(slot).items

\* useEffect(() => localStorage.setItem(...), [bookmarks]) runs after a render
\* that committed; a render that threw commits nothing
Persisted(bm, cat) == IF RenderThrows(bm, cat) THEN stored ELSE JSONStringify(bm)

----------------------------------------------------------------------------
(* The form *)

DuplicateMsg == <<"This URL is already saved.">>
InvalidMsg == <<"Invalid URL format">>

InitialForm ==
    [url |-> Empty, title |-> Empty, description |-> Empty, category |-> Uncategorized,
     tags |-> Empty, notes |-> Empty]

BlankForm ==
    [url |-> Empty, title |-> Empty, description |-> Empty, category |-> Uncategorized,
     tags |-> Empty, notes |-> Empty, image |-> Null, favicon |-> Null]

FormOf(b) ==
    [url |-> Get(b, "url"), title |-> Get(b, "title"),
     description |-> Or(Get(b, "description"), Empty),
     category |-> Or(Get(b, "category"), Uncategorized),
     tags |-> Join(b.tags), notes |-> Or(Get(b, "notes"), Empty),
     image |-> Or(Get(b, "image"), Null), favicon |-> Or(Get(b, "favicon"), Null)]

\* bookmarks.find(b => b.url === url && b.id !== editingId) finds a record
Duplicate(url) ==
    \E i \in DOMAIN bookmarks :
        Get(bookmarks[i], "url") = url /\ Get(bookmarks[i], "id") # editingId

\* A Save button that a lookup in progress does not disable
SaveDisabledIgnoresFetching == ~Truthy(formData.url) \/ Truthy(urlError)

\* disabled={!formData.url || isFetchingMeta || !!urlError} of the Save button
SaveDisabled == ~Truthy(formData.url) \/ isFetchingMeta \/ Truthy(urlError)

Init ==
    /\ bookmarks = <<>>
    /\ isModalOpen = FALSE
    /\ editingId = Null
    /\ formData = InitialForm
    /\ isFetchingMeta = FALSE
    /\ fetchError = Empty
    /\ urlError = Empty
    /\ activeCategory = All
    /\ searchQuery = Empty
    /\ urlFocused = FALSE
    /\ pending = <<>>
    /\ reading = <<>>
    /\ exported = Garbage
    /\ exportedFrom = <<>>
    /\ stored = JSONStringify(<<>>)
    /\ alertMsg = Empty
    /\ crashed = FALSE
    /\ now = 1
    /\ last = "init"

\* The page behind the modal takes clicks: the modal's overlay covers it
PageActive == ~crashed /\ ~isModalOpen

\* The controls of the modal other than the URL input take input
ModalActive == ~crashed /\ isModalOpen /\ ~urlFocused

\* openModal() from Add Link
OpenModalNew ==
    /\ PageActive
    /\ urlError' = Empty
    /\ fetchError' = Empty
    /\ editingId' = Null
    /\ formData' = BlankForm
    /\ isModalOpen' = TRUE
    /\ last' = "other"
    /\ UNCHANGED <<searchQuery, bookmarks, isFetchingMeta, activeCategory, urlFocused, pending, reading,
                   exported, exportedFrom, stored, alertMsg, crashed, now>>

\* openModal(bookmark) from the Edit button of a card
OpenModalEdit(i) ==
    /\ PageActive
    /\ Displayed(bookmarks[i], activeCategory)
    /\ urlError' = Empty
    /\ fetchError' = Empty
    /\ editingId' = Get(bookmarks[i], "id")
    /\ formData' = FormOf(bookmarks[i])
    /\ isModalOpen' = TRUE
    /\ last' = "other"
    /\ UNCHANGED <<searchQuery, bookmarks, isFetchingMeta, activeCategory, urlFocused, pending, reading,
                   exported, exportedFrom, stored, alertMsg, crashed, now>>

\* closeModal from Cancel or X
CloseModal ==
    /\ ModalActive
    /\ isModalOpen' = FALSE
    /\ fetchError' = Empty
    /\ urlError' = Empty
    /\ last' = "other"
    /\ UNCHANGED <<searchQuery, bookmarks, editingId, formData, isFetchingMeta, activeCategory, urlFocused,
                   pending, reading, exported, exportedFrom, stored, alertMsg, crashed, now>>

\* A URL input that a lookup in progress does not disable
FocusUrlWhileFetching ==
    /\ ~crashed /\ isModalOpen /\ ~urlFocused
    /\ urlFocused' = TRUE
    /\ last' = "other"
    /\ UNCHANGED <<searchQuery, bookmarks, isModalOpen, editingId, formData, isFetchingMeta,
                   fetchError, urlError, activeCategory, pending, reading, exported,
                   exportedFrom, stored, alertMsg, crashed, now>>

\* The URL input takes the focus; disabled={isFetchingMeta}
FocusUrl ==
    /\ ~crashed /\ isModalOpen /\ ~urlFocused /\ ~isFetchingMeta
    /\ urlFocused' = TRUE
    /\ last' = "other"
    /\ UNCHANGED <<searchQuery, bookmarks, isModalOpen, editingId, formData, isFetchingMeta, fetchError,
                   urlError, activeCategory, pending, reading, exported, exportedFrom, stored, alertMsg,
                   crashed, now>>

\* onChange of the URL input
ChangeUrl(u) ==
    /\ ~crashed /\ isModalOpen /\ urlFocused
    /\ formData' = Spread(formData, [url |-> u])
    /\ urlError' = Empty
    /\ last' = "other"
    /\ UNCHANGED <<searchQuery, bookmarks, isModalOpen, editingId, isFetchingMeta, fetchError,
                   activeCategory, urlFocused, pending, reading, exported, exportedFrom, stored, alertMsg,
                   crashed, now>>

\* onChange of the Title, Tags and Description inputs, and the category dropdown
ChangeField(k, v) ==
    /\ ModalActive
    /\ formData' = Spread(formData, [j \in {k} |-> v])
    /\ last' = "other"
    /\ UNCHANGED <<searchQuery, bookmarks, isModalOpen, editingId, isFetchingMeta, fetchError, urlError,
                   activeCategory, urlFocused, pending, reading, exported, exportedFrom, stored, alertMsg,
                   crashed, now>>

----------------------------------------------------------------------------
(* Enrichment: fetchMetadata *)

\* What the lookup service answers with status 'success': data.data, with
\* every field or with none
FullResponse ==
    [title |-> <<"R">>, description |-> <<"RD">>, image |-> <<"img">>, logo |-> <<"logo">>]

EmptyResponse ==
    [title |-> Undefined, description |-> Undefined, image |-> Undefined, logo |-> Undefined]

Responses == {FullResponse, EmptyResponse}

\* An onBlur that calls fetchMetadata in an edit session too
BlurUrlAlways ==
    /\ ~crashed /\ isModalOpen /\ urlFocused
    /\ urlFocused' = FALSE
    /\ IF ~Truthy(formData.url)
       THEN /\ last' = "blur:empty"
            /\ UNCHANGED <<isFetchingMeta, fetchError, urlError, pending>>
       ELSE IF Duplicate(formData.url)
       THEN /\ urlError' = DuplicateMsg
            /\ fetchError' = Empty
            /\ isFetchingMeta' = FALSE
            /\ last' = "blur:duplicate"
            /\ UNCHANGED pending
       ELSE /\ Len(pending) < MaxPending
            /\ isFetchingMeta' = TRUE
            /\ fetchError' = Empty
            /\ urlError' = Empty
            /\ pending' = Append(pending, ValidUrl(formData.url))
            /\ last' = "blur:fetch"
    /\ UNCHANGED <<searchQuery, bookmarks, isModalOpen, editingId, formData, activeCategory,
                   reading, exported, exportedFrom, stored, alertMsg, crashed, now>>

\* onBlur={() => !editingId && fetchMetadata(formData.url)}: fetchMetadata up to
\* its await
BlurUrl ==
    /\ ~crashed /\ isModalOpen /\ urlFocused
    /\ urlFocused' = FALSE
    /\ IF Truthy(editingId) \/ ~Truthy(formData.url)
       THEN /\ last' = IF Truthy(editingId) THEN "blur:skipped" ELSE "blur:empty"
            /\ UNCHANGED <<isFetchingMeta, fetchError, urlError, pending>>
       ELSE IF Duplicate(formData.url)
       THEN /\ urlError' = DuplicateMsg
            /\ fetchError' = Empty
            /\ isFetchingMeta' = FALSE
            /\ last' = "blur:duplicate"
            /\ UNCHANGED pending
       ELSE /\ Len(pending) < MaxPending
            /\ isFetchingMeta' = TRUE
            /\ fetchError' = Empty
            /\ urlError' = Empty
            /\ pending' = Append(pending, ValidUrl(formData.url))
            /\ last' = "blur:fetch"
    /\ UNCHANGED <<searchQuery, bookmarks, isModalOpen, editingId, formData, activeCategory, reading,
                   exported, exportedFrom, stored, alertMsg, crashed, now>>

RemoveAt(seq, i) == SubSeq(seq, 1, i - 1) \o SubSeq(seq, i + 1, Len(seq))

\* setFormData(prev => ...) of the success branch
SuccessForm(prev, validUrl, data) ==
    Spread(prev,
        [url |-> validUrl,
         title |-> Or(data.title, Or(Get(prev, "title"), Hostname(validUrl))),
         description |-> Or(data.description, Get(prev, "description")),
         image |-> Or(data.image, Null),
         favicon |-> Or(data.logo, GenericFavicon(validUrl))])

\* setFormData(prev => ...) of the catch branch
FallbackForm(prev, validUrl) ==
    Spread(prev,
        [url |-> validUrl,
         title |-> Or(Get(prev, "title"), Hostname(validUrl)),
         favicon |-> GenericFavicon(validUrl)])

\* The response of request i arrives with status 'success'.  The service
\* reports success only for a page it could load, so for a URL that parses.
FetchSuccess(i, data) ==
    /\ ~crashed
    /\ i \in DOMAIN pending
    /\ Parseable(pending[i])
    /\ pending' = RemoveAt(pending, i)
    /\ formData' = SuccessForm(formData, pending[i], data)
    /\ isFetchingMeta' = FALSE
    /\ last' = "fetch:success"
    /\ UNCHANGED <<searchQuery, bookmarks, isModalOpen, editingId, fetchError, urlError, activeCategory,
                   urlFocused, reading, exported, exportedFrom, stored, alertMsg, crashed,
                   now>>

\* A catch branch without the finally: the flag stays set when the URL does
\* not parse
FetchFailureKeepsFlag(i) ==
    /\ ~crashed
    /\ i \in DOMAIN pending
    /\ pending' = RemoveAt(pending, i)
    /\ IF Parseable(pending[i])
       THEN /\ formData' = FallbackForm(formData, pending[i])
            /\ last' = "fetch:fallback"
            /\ isFetchingMeta' = FALSE
            /\ UNCHANGED fetchError
       ELSE /\ fetchError' = InvalidMsg
            /\ last' = "fetch:invalid"
            /\ UNCHANGED <<formData, isFetchingMeta>>
    /\ UNCHANGED <<searchQuery, bookmarks, isModalOpen, editingId, urlError, activeCategory,
                   urlFocused, reading, exported, exportedFrom, stored, alertMsg, crashed, now>>

\* The request i fails, or its response is no success: the catch branch
FetchFailure(i) ==
    /\ ~crashed
    /\ i \in DOMAIN pending
    /\ pending' = RemoveAt(pending, i)
    /\ IF Parseable(pending[i])
       THEN /\ formData' = FallbackForm(formData, pending[i])
            /\ last' = "fetch:fallback"
            /\ UNCHANGED fetchError
       ELSE /\ fetchError' = InvalidMsg
            /\ last' = "fetch:invalid"
            /\ UNCHANGED formData
    /\ isFetchingMeta' = FALSE
    /\ UNCHANGED <<searchQuery, bookmarks, isModalOpen, editingId, urlError, activeCategory, urlFocused,
                   reading, exported, exportedFrom, stored, alertMsg, crashed, now>>

----------------------------------------------------------------------------
(* The collection: handleSave, handleDelete, toggleFavorite *)

HasId(id) == \E i \in DOMAIN bookmarks : Get(bookmarks[i], "id") = id

\* bookmarks.find(b => b.id === id): the first record that has the id
Find(id) ==
    bookmarks[CHOOSE i \in DOMAIN bookmarks :
        /\ Get(bookmarks[i], "id") = id
        /\ \A j \in 1..(i - 1) : Get(bookmarks[j], "id") # id]

\* Date.now().toString()
FreshId(t) == <<ToString(t)>>

\* newBookmark of handleSave; t is what Date.now() reads (the handler's two
\* readings, a few instructions apart, give the same millisecond)
NewBookmark(t) ==
    Spread(
        Spread([id |-> IF Truthy(editingId) THEN editingId ELSE FreshId(t),
                createdAt |-> IF Truthy(editingId) THEN Find(editingId).createdAt ELSE t],
               formData),
        [tags |-> TagsArray(formData.tags),
         isFavorite |-> IF Truthy(editingId) THEN Find(editingId).isFavorite ELSE FALSE])

\* prev.map(b => b.id === editingId ? newBookmark : b)
Replaced(prev, id, nb) == [i \in DOMAIN prev |-> IF Get(prev[i], "id") = id THEN nb ELSE prev[i]]

\* What handleSave does with the draft
SaveOutcome ==
    IF Duplicate(formData.url) THEN "rejected"
    ELSE IF ~Truthy(editingId) THEN "added"
    ELSE IF HasId(editingId) THEN "updated"
    ELSE "threw"

\* handleSave, from the Save button
HandleSave ==
    /\ ModalActive
    /\ ~SaveDisabled
    /\ LET outcome == SaveOutcome
            bm == IF outcome = "added" THEN <<NewBookmark(now)>> \o bookmarks
                  ELSE IF outcome = "updated"
                  THEN Replaced(bookmarks, editingId, NewBookmark(now))
                  ELSE bookmarks
            committed == outcome \in {"added", "updated"}
        IN  /\ outcome = "added" => Len(bookmarks) < MaxBookmarks
            /\ bookmarks' = bm
            /\ isModalOpen' = ~committed
            /\ urlError' = IF outcome = "rejected" THEN DuplicateMsg
                           ELSE IF committed THEN Empty ELSE urlError
            /\ fetchError' = IF committed THEN Empty ELSE fetchError
            /\ crashed' = (committed /\ RenderThrows(bm, activeCategory))
            /\ stored' = IF committed THEN Persisted(bm, activeCategory) ELSE stored
            /\ last' = "save:" \o outcome
    /\ UNCHANGED <<searchQuery, editingId, formData, isFetchingMeta, activeCategory, urlFocused, pending,
                   reading, exported, exportedFrom, alertMsg, now>>

\* handleDelete(bookmark.id), the confirm() answered yes
HandleDelete(i) ==
    /\ PageActive
    /\ i \in DOMAIN bookmarks
    /\ Displayed(bookmarks[i], activeCategory)
    /\ LET id == Get(bookmarks[i], "id")
           bm == SelectSeq(bookmarks, LAMBDA b : Get(b, "id") # id)
       IN  /\ bookmarks' = bm
           /\ crashed' = RenderThrows(bm, activeCategory)
           /\ stored' = Persisted(bm, activeCategory)
    /\ last' = "other"
    /\ UNCHANGED <<searchQuery, isModalOpen, editingId, formData, isFetchingMeta, fetchError, urlError,
                   activeCategory, urlFocused, pending, reading, exported, exportedFrom, alertMsg, now>>

\* toggleFavorite(bookmark.id, e)
ToggleFavorite(i) ==
    /\ PageActive
    /\ i \in DOMAIN bookmarks
    /\ Displayed(bookmarks[i], activeCategory)
    /\ LET id == Get(bookmarks[i], "id")
           bm == [j \in DOMAIN bookmarks |->
                    IF Get(bookmarks[j], "id") = id
                    THEN Spread(bookmarks[j], [isFavorite |-> ~bookmarks[j].isFavorite])
                    ELSE bookmarks[j]]
       IN  /\ bookmarks' = bm
           /\ crashed' = RenderThrows(bm, activeCategory)
           /\ stored' = Persisted(bm, activeCategory)
    /\ last' = "other"
    /\ UNCHANGED <<searchQuery, isModalOpen, editingId, formData, isFetchingMeta, fetchError, urlError,
                   activeCategory, urlFocused, pending, reading, exported, exportedFrom, alertMsg, now>>

\* setActiveCategory(cat) from the sidebar and the chips
SetActiveCategory(cat) ==
    /\ PageActive
    /\ cat # activeCategory
    /\ activeCategory' = cat
    /\ crashed' = RenderThrows(bookmarks, cat)
    /\ last' = "other"
    /\ UNCHANGED <<searchQuery, bookmarks, isModalOpen, editingId, formData, isFetchingMeta, fetchError,
                   urlError, urlFocused, pending, reading, exported, exportedFrom, stored, alertMsg, now>>

\* onChange of the search box: setSearchQuery(e.target.value)
SetSearchQuery(q) ==
    /\ PageActive
    /\ q # searchQuery
    /\ searchQuery' = q
    /\ crashed' = ViewThrows(bookmarks, activeCategory, q)
    /\ last' = "other"
    /\ UNCHANGED <<bookmarks, isModalOpen, editingId, formData, isFetchingMeta, fetchError,
                   urlError, activeCategory, urlFocused, pending, reading, exported,
                   exportedFrom, stored, alertMsg, now>>

----------------------------------------------------------------------------
(* Import and export *)

\* exportData: the document offered for download (the browser decodes the
\* data: URI that encodeURIComponent encoded, and saves the JSON text)
ExportData ==
    /\ PageActive
    /\ exported' = JSONStringify(bookmarks)
    /\ exportedFrom' = bookmarks
    /\ last' = "other"
    /\ UNCHANGED <<searchQuery, bookmarks, isModalOpen, editingId, formData, isFetchingMeta, fetchError,
                   urlError, activeCategory, urlFocused, pending, reading, stored, alertMsg,
                   crashed, now>>

\* importData: fileReader.readAsText(file) starts the load
ImportData(doc) ==
    /\ PageActive
    /\ Len(reading) < MaxReading
    /\ reading' = Append(reading, doc)
    /\ last' = "other"
    /\ UNCHANGED <<searchQuery, bookmarks, isModalOpen, editingId, formData, isFetchingMeta, fetchError,
                   urlError, activeCategory, urlFocused, pending, exported, exportedFrom, stored, alertMsg,
                   crashed, now>>

\* What fileReader.onload does with the text
LoadOutcome(doc) ==
    IF ParseThrows(doc) THEN "parseerror"
    ELSE IF IsArray(JSONParse(doc)) THEN "ok"
    ELSE "notarray"

\* An onload that empties the collection when the file is not accepted
ImportedClears(doc) == IF LoadOutcome(doc) = "ok" THEN JSONParse(doc).items ELSE <<>>

\* The collection after fileReader.onload: setBookmarks(json) on an array
Imported(doc) == IF LoadOutcome(doc) = "ok" THEN JSONParse(doc).items ELSE bookmarks

\* fileReader.onload
FileLoad(i) ==
    /\ ~crashed
    /\ i \in DOMAIN reading
    /\ reading' = RemoveAt(reading, i)
    /\ LET outcome == LoadOutcome(reading[i])
           bm == Imported(reading[i])
       IN  /\ bookmarks' = bm
           /\ crashed' = (outcome = "ok" /\ RenderThrows(bm, activeCategory))
           /\ stored' = IF outcome = "ok" THEN Persisted(bm, activeCategory) ELSE stored
           /\ alertMsg' = IF outcome = "ok" THEN <<"Import successful!">>
                          ELSE IF outcome = "notarray" THEN <<"Invalid file format.">>
                          ELSE <<"Error parsing JSON.">>
           /\ last' = "import:" \o outcome
    /\ UNCHANGED <<searchQuery, isModalOpen, editingId, formData, isFetchingMeta, fetchError, urlError,
                   activeCategory, urlFocused, pending, exported, exportedFrom, now>>

\* The clock advances
Tick ==
    /\ now < MaxClock
    /\ now' = now + 1
    /\ last' = "other"
    /\ UNCHANGED <<searchQuery, bookmarks, isModalOpen, editingId, formData, isFetchingMeta, fetchError,
                   urlError, activeCategory, urlFocused, pending, reading, exported, exportedFrom, stored,
                   alertMsg, crashed>>

----------------------------------------------------------------------------
(* Specifications *)

\* The form with its Save button; the user types the texts of urls
Form(urls) ==
    \/ OpenModalNew
    \/ \E i \in DOMAIN bookmarks : OpenModalEdit(i)
    \/ CloseModal
    \/ FocusUrl
    \/ \E u \in urls : ChangeUrl(u)
    \/ BlurUrl
    \/ HandleSave

\* The lookup service answers a pending request
Enrich(responses) ==
    \/ \E i \in DOMAIN pending : \E data \in responses : FetchSuccess(i, data)
    \/ \E i \in DOMAIN pending : FetchFailure(i)

\* The cards and the sidebar
Page ==
    \/ \E i \in DOMAIN bookmarks : HandleDelete(i)
    \/ \E i \in DOMAIN bookmarks : ToggleFavorite(i)
    \/ \E cat \in LibraryFilters : SetActiveCategory(cat)

\* The Import JSON input and the file reader
Import(files) ==
    \/ \E doc \in files : ImportData(doc)
    \/ \E i \in DOMAIN reading : FileLoad(i)

\* add, update, remove and toggle-favorite
Next == Form(UrlInputs) \/ Enrich({FullResponse}) \/ Page \/ Tick

Spec == Init /\ [][Next]_vars

\* What the user types into the URL input in the runs that import
ImportUrlInputs == {<<"a.com">>}

\* add, update, remove and import
NextImport ==
    \/ Form(ImportUrlInputs)
    \/ Enrich({FullResponse})
    \/ \E i \in DOMAIN bookmarks : HandleDelete(i)
    \/ Import(ImportFiles)
    \/ Tick

SpecImport == Init /\ [][NextImport]_vars

\* The state after a start that finds one record in the localStorage slot:
\* useState(() => JSON.parse(localStorage.getItem('linkvault_data')))
InitStored ==
    /\ bookmarks = <<ImportedRecord>>
    /\ isModalOpen = FALSE
    /\ editingId = Null
    /\ formData = InitialForm
    /\ isFetchingMeta = FALSE
    /\ fetchError = Empty
    /\ urlError = Empty
    /\ activeCategory = All
    /\ searchQuery = Empty
    /\ urlFocused = FALSE
    /\ pending = <<>>
    /\ reading = <<>>
    /\ exported = Garbage
    /\ exportedFrom = <<>>
    /\ stored = JSONStringify(<<ImportedRecord>>)
    /\ alertMsg = Empty
    /\ crashed = FALSE
    /\ now = 1
    /\ last = "init"

\* add, update, remove, toggle-favorite, export, and import of what was exported
NextExport ==
    \/ Form(ImportUrlInputs)
    \/ \E i \in DOMAIN pending : FetchSuccess(i, FullResponse)
    \/ \E i \in DOMAIN bookmarks : HandleDelete(i)
    \/ \E i \in DOMAIN bookmarks : ToggleFavorite(i)
    \/ ExportData
    \/ exported # Garbage /\ ImportData(exported)
    \/ \E i \in DOMAIN reading : FileLoad(i)

SpecExport == InitStored /\ [][NextExport]_vars

\* Stored records for the runs that search; their texts are letter by letter
TagRecord ==
    Spread(ImportedRecord,
           [id |-> <<"1">>, url |-> <<"https://", "a.com">>, tags |-> <<<<"d", "e", "v", "t">>>>])

TitleRecord == Spread(ImportedRecord, [id |-> <<"2">>, title |-> <<"D", "E", "V">>, isFavorite |-> TRUE])

DescRecord ==
    Spread(ImportedRecord,
           [id |-> <<"3">>, url |-> <<"http://", "a.com">>,
            description |-> <<"a", " ", "d", "e", "v">>])

PlainRecord == Spread(ImportedRecord, [id |-> <<"4">>, url |-> <<"http://", "b.com">>, tags |-> <<>>])

SearchRecords == {TagRecord, TitleRecord, DescRecord, PlainRecord}

\* The collections a start finds in the slot: one or two records
SearchCollections ==
    {<<r>> : r \in SearchRecords}
        \cup {c \in SearchRecords \X SearchRecords : c[1] # c[2]}

\* What the user types into the search box
SearchInputs ==
    {<<>>, <<" ">>, <<"d", "e", "v">>, <<"D", "e", "V">>, <<" ", "d">>, <<"x", "y", "z">>,
     <<"b.com">>}

InitSearch ==
    /\ bookmarks \in SearchCollections
    /\ isModalOpen = FALSE
    /\ editingId = Null
    /\ formData = InitialForm
    /\ isFetchingMeta = FALSE
    /\ fetchError = Empty
    /\ urlError = Empty
    /\ activeCategory = All
    /\ searchQuery = Empty
    /\ urlFocused = FALSE
    /\ pending = <<>>
    /\ reading = <<>>
    /\ exported = Garbage
    /\ exportedFrom = <<>>
    /\ stored = JSONStringify(bookmarks)
    /\ alertMsg = Empty
    /\ crashed = FALSE
    /\ now = 1
    /\ last = "init"

\* The search box and the sidebar over a stored collection
NextSearch ==
    \/ \E q \in SearchInputs : SetSearchQuery(q)
    \/ \E cat \in LibraryFilters : SetActiveCategory(cat)

SpecSearch == InitSearch /\ [][NextSearch]_vars

\* The form with its Tags input, and the lookup service with every answer it
\* can give
NextEnrich ==
    \/ Form(UrlInputs)
    \/ \E v \in TagInputs : ChangeField("tags", v)
    \/ Enrich(Responses)

SpecEnrich == Init /\ [][NextEnrich]_vars

\* The form and the lookup service
NextLookup == Form(UrlInputs) \/ Enrich(Responses)

\* A request that was sent is answered or fails: the promise of fetch settles,
\* and the continuation of fetchMetadata runs
SpecLookupFair == Init /\ [][NextLookup]_vars /\ WF_vars(Enrich(Responses))

----------------------------------------------------------------------------
(* Steps, as the properties below name them *)

\* A response of the lookup service is handled in this step
ResponseStep == Len(pending') < Len(pending)

\* fileReader.onload of the i-th pending file runs in this step
LoadStep(i) ==
    i \in DOMAIN reading /\ Len(reading') < Len(reading) /\ reading' = RemoveAt(reading, i)

\* handleSave commits a record in this step
SaveCommits == last' \in {"save:added", "save:updated"}

----------------------------------------------------------------------------
(* Properties *)

\* C1: after any sequence of adds, updates and removes, no two records of the
\* collection have the same url.
UrlsUnique ==
    \A i, j \in DOMAIN bookmarks :
        i # j => Get(bookmarks[i], "url") # Get(bookmarks[j], "url")

\* C2: after any sequence of adds, updates and removes, no two records of the
\* collection have the same id, also when two adds read the same clock value.
IdsUnique ==
    \A i, j \in DOMAIN bookmarks :
        i # j => Get(bookmarks[i], "id") # Get(bookmarks[j], "id")

\* The draft's url, normalized, is the url of a record other than the edited one
NormalizedCollision ==
    \E i \in DOMAIN bookmarks :
        /\ Get(bookmarks[i], "id") # editingId
        /\ Get(bookmarks[i], "url") = ValidUrl(formData.url)

\* The draft's url is the url of the edited record and of no other record
CollidesOnlyWithItself ==
    /\ Truthy(editingId)
    /\ \E i \in DOMAIN bookmarks :
        Get(bookmarks[i], "id") = editingId /\ Get(bookmarks[i], "url") = formData.url
    /\ \A i \in DOMAIN bookmarks :
        Get(bookmarks[i], "id") # editingId =>
            Get(bookmarks[i], "url") \notin {formData.url, ValidUrl(formData.url)}

\* C3: a save whose draft url, after normalization, is the url of a different
\* record is rejected (collection unchanged, URL error set, form still open);
\* a save whose draft url collides only with the edited record is accepted.
DuplicateAfterNormalizationRejected ==
    [][/\ (last' \in {"save:rejected", "save:added", "save:updated"} /\ NormalizedCollision)
          => (/\ last' = "save:rejected"
              /\ bookmarks' = bookmarks
              /\ urlError' = DuplicateMsg
              /\ isModalOpen')
       /\ (last' \in {"save:rejected", "save:added", "save:updated"} /\ CollidesOnlyWithItself)
          => SaveCommits]_vars

\* C4: an update keeps the edited record's id, createdAt and isFavorite, and
\* leaves every other record, and the order of the collection, as they were.
UpdateTouchesOneRecord ==
    [][last' = "save:updated" =>
        /\ DOMAIN bookmarks' = DOMAIN bookmarks
        /\ \E i \in DOMAIN bookmarks :
            /\ Get(bookmarks[i], "id") = editingId
            /\ Get(bookmarks'[i], "id") = Get(bookmarks[i], "id")
            /\ bookmarks'[i].createdAt = bookmarks[i].createdAt
            /\ bookmarks'[i].isFavorite = bookmarks[i].isFavorite
            /\ \A j \in DOMAIN bookmarks \ {i} : bookmarks'[j] = bookmarks[j]]_vars

\* C5: every record a save has stored has a url that begins with http:// or
\* https:// (in the runs without import every record comes from a save).
SavedUrlsHaveScheme ==
    \A i \in DOMAIN bookmarks :
        LET url == Get(bookmarks[i], "url")
        IN  url # <<>> /\ url[1] \in {"http://", "https://"}

\* The file's content does not parse as JSON, or parses to something that is
\* no sequence
NotASequence(doc) == doc \in {Garbage, NonArrayDoc}

ImportErrors == {<<"Invalid file format.">>, <<"Error parsing JSON.">>}

\* C6: an import whose file does not parse, or parses to a value that is no
\* sequence, leaves the collection (records and order) and the stored slot as
\* they were and shows an error.
FailedImportLeavesCollection ==
    [][\A i \in DOMAIN reading :
        (LoadStep(i) /\ NotASequence(reading[i])) =>
            /\ bookmarks' = bookmarks
            /\ stored' = stored
            /\ alertMsg' \in ImportErrors]_vars

\* C6's case: a non-sequence was imported into a collection that holds a record
FailedImportWitness ==
    /\ last = "import:notarray"
    /\ alertMsg = <<"Invalid file format.">>
    /\ bookmarks # <<>>

\* An element of an imported sequence has the minimal Bookmark shape
MinimalShape(o) == {"url", "id"} \subseteq DOMAIN o

\* The file is a sequence with an element that lacks the minimal shape
MalformedSequence(doc) ==
    IF doc.kind # "json" THEN FALSE
    ELSE IF doc.value.type # "array" THEN FALSE
    ELSE \E k \in DOMAIN doc.value.items : ~MinimalShape(doc.value.items[k])

\* C7: an import of a sequence with an element that is no object with at least
\* a url and an id fails and leaves the collection unchanged.
MalformedImportRejected ==
    [][\A i \in DOMAIN reading :
        (LoadStep(i) /\ MalformedSequence(reading[i])) =>
            /\ bookmarks' = bookmarks
            /\ alertMsg' \in ImportErrors]_vars

\* C8: importing the document that exportData made of a collection yields that
\* collection again, record for record and field for field.
ExportImportRoundTrip ==
    [][\A i \in DOMAIN reading :
        (LoadStep(i) /\ reading[i] = exported) =>
            /\ last' = "import:ok"
            /\ bookmarks' = exportedFrom]_vars

\* C8's case: an exported collection of two records, one a favorite, one added
\* through the form, has been imported again
RoundTripWitness ==
    /\ last = "import:ok"
    /\ Len(bookmarks) = 2
    /\ bookmarks = exportedFrom
    /\ \E i \in DOMAIN bookmarks : bookmarks[i].isFavorite
    /\ \E i \in DOMAIN bookmarks : bookmarks[i].image # Null

\* C9: a response that arrives after the form that asked for it was closed
\* changes no field of the draft.  An edit session never asks for enrichment,
\* so a response that arrives during one belongs to an earlier, closed form.
StaleResponseDiscarded ==
    [][(ResponseStep /\ isModalOpen /\ Truthy(editingId)) => formData' = formData]_vars

\* C10: when the draft url cannot be parsed even after normalization, a failed
\* enrichment shows the invalid-URL error and leaves the draft as it was, and
\* no save commits that draft while the error stands.
InvalidUrlBlocksSave ==
    [][/\ \A i \in DOMAIN pending :
            (/\ ResponseStep
             /\ pending' = RemoveAt(pending, i)
             /\ last' \in {"fetch:fallback", "fetch:invalid"}
             /\ ~Parseable(pending[i]))
            => (fetchError' = InvalidMsg /\ formData' = formData)
       /\ (isModalOpen /\ fetchError = InvalidMsg /\ ~Parseable(ValidUrl(formData.url)))
            => ~SaveCommits]_vars

\* C11: after every add, update, remove and toggle-favorite the localStorage
\* slot holds exactly the current collection: what the next start would load
\* is the collection as of the last mutation.
SlotHoldsCollection == Loaded(stored) = bookmarks

\* The query is empty or holds whitespace only
Blank(query) == \A i \in DOMAIN query : query[i] = " "

\* The texts of a record that the search looks into
SearchFields(b) ==
    {b.title, b.url} \cup {b.tags[k] : k \in DOMAIN b.tags}
        \cup (IF Get(b, "description") \in {Null, Undefined} THEN {} ELSE {b.description})

\* The lowercased query is a substring of one of the record's lowercased texts
SearchMatches(b, query) ==
    \E f \in SearchFields(b) : Includes(ToLowerCase(f), ToLowerCase(query))

\* C12: the search step keeps a record exactly when the lowercased query is a
\* substring of its lowercased title, url, a tag or its description; an empty
\* or whitespace-only query gives the category-filtered records unchanged.
SearchStepAsSpecified ==
    LET byCategory == SelectSeq(bookmarks, LAMBDA b : CategoryKeeps(b, activeCategory))
    IN  FilteredBookmarks(bookmarks, activeCategory, searchQuery) =
            IF Blank(searchQuery) THEN byCategory
            ELSE SelectSeq(byCategory, LAMBDA b : SearchMatches(b, searchQuery))

\* C12's case: the query DeV over a record tagged devt and a record without
\* the letters keeps the first and drops the second
SearchWitness ==
    /\ searchQuery = <<"D", "e", "V">>
    /\ bookmarks = <<TagRecord, PlainRecord>>
    /\ activeCategory = All
    /\ FilteredBookmarks(bookmarks, activeCategory, searchQuery) = <<TagRecord>>

\* C13: in every reachable state every entry of every record's tags is a
\* trimmed, non-empty string.
TagsTrimmed ==
    \A i \in DOMAIN bookmarks :
        "tags" \in DOMAIN bookmarks[i] =>
            \A k \in DOMAIN bookmarks[i].tags :
                /\ bookmarks[i].tags[k] # <<>>
                /\ Trim(bookmarks[i].tags[k]) = bookmarks[i].tags[k]

\* C14: while a lookup request is in progress, from its start until it is
\* answered or fails, no save commits a record to the collection.
NoSaveWhileFetching == [][pending # <<>> => ~SaveCommits]_vars

\* C14's case: a request is outstanding while the form is open on a draft that
\* a save would otherwise accept
FetchingWithSavableDraft ==
    /\ pending # <<>>
    /\ ModalActive
    /\ Truthy(formData.url)
    /\ ~Truthy(urlError)
    /\ ~Duplicate(formData.url)

\* The URL input loses the focus in this step
BlurStep == urlFocused /\ ~urlFocused'

\* A lookup request is sent in this step
RequestStarts == Len(pending') > Len(pending)

\* C15: while creating, a loss of focus of the URL field calls the enrichment
\* once (one request at most, and one exactly when the url is non-empty and no
\* duplicate), and no other step, a keystroke included, sends a request; while
\* editing, a loss of focus calls nothing and changes nothing.
EnrichmentOncePerBlur ==
    [][/\ RequestStarts =>
            /\ BlurStep
            /\ ~Truthy(editingId)
            /\ pending' = Append(pending, ValidUrl(formData.url))
       /\ (BlurStep /\ ~Truthy(editingId)) =>
            /\ last' \in {"blur:empty", "blur:duplicate", "blur:fetch"}
            /\ RequestStarts <=> (Truthy(formData.url) /\ ~Duplicate(formData.url))
       /\ (BlurStep /\ Truthy(editingId)) =>
            /\ last' = "blur:skipped"
            /\ ~RequestStarts
            /\ <<formData, isFetchingMeta, fetchError, urlError>>' =
                    <<formData, isFetchingMeta, fetchError, urlError>>]_vars

\* C15's case: the URL field of an edit session was changed to a url no
\* record has and left, and no request was sent
EditBlurWitness ==
    /\ last = "blur:skipped"
    /\ Truthy(formData.url)
    /\ \A i \in DOMAIN bookmarks : Get(bookmarks[i], "url") # formData.url
    /\ pending = <<>>
    /\ ~isFetchingMeta

\* The fields of the draft that a success response fills
EnrichedFields == {"title", "description", "image", "favicon"}

\* What the response holds for a field of the draft (the favicon is its logo)
ResponseField(data, f) == IF f = "favicon" THEN data.logo ELSE data[f]

\* C16: on a success response, a field among title, description, image and
\* favicon that the response lacks keeps the value the draft held (a draft
\* without a title gets the host of the url), and no value of the draft is
\* replaced by an empty one.
EnrichmentKeepsDraft ==
    [][\A i \in DOMAIN pending : \A data \in Responses :
        (/\ ResponseStep
         /\ last' = "fetch:success"
         /\ pending' = RemoveAt(pending, i)
         /\ formData' = SuccessForm(formData, pending[i], data))
        => /\ \A f \in EnrichedFields :
                (~Truthy(ResponseField(data, f)) /\ Truthy(Get(formData, f)))
                    => formData'[f] = formData[f]
           /\ (~Truthy(data.title) /\ ~Truthy(Get(formData, "title")))
                    => formData'.title = Hostname(pending[i])
           /\ \A f \in EnrichedFields :
                Truthy(Get(formData, f)) => Truthy(formData'[f])]_vars

\* C17: whenever the form is open on an edit session, a record with the
\* editing id is in the collection, so that save finds the record whose
\* createdAt and isFavorite it copies.
EditedRecordExists == (~crashed /\ isModalOpen /\ Truthy(editingId)) => HasId(editingId)

\* C18: at most one lookup request is outstanding: a request is sent only
\* when the in-progress flag is clear and none is pending, also after the form
\* was closed and opened again during a request.
OneRequestAtATime ==
    [][RequestStarts => (~isFetchingMeta /\ pending = <<>>)]_vars

\* C18's case: a request is pending while an edit session is open, so the
\* form that sent it was closed and another was opened
ReopenedWhileFetching ==
    /\ pending # <<>>
    /\ isFetchingMeta
    /\ isModalOpen
    /\ Truthy(editingId)

\* C19: every enrichment that was started clears the in-progress flag in the
\* end, and the flag is never set while no request is outstanding.
FlagClearedInTheEnd ==
    /\ [](isFetchingMeta => pending # <<>>)
    /\ (isFetchingMeta ~> ~isFetchingMeta)

\* C19's case: the lookup of a url that does not parse has ended, and the flag
\* is clear
InvalidLookupEnded ==
    /\ last = "fetch:invalid"
    /\ fetchError = InvalidMsg
    /\ ~isFetchingMeta
    /\ pending = <<>>

====
